---- MODULE Spec2Model ----
(***************************************************************************)
(* A model of mini-git's object store: the object codec (header encode and *)
(* decode), the HashWriter and LimitReader stream wrappers, the write path *)
(* through the temporary file `tmp`, the cat-file and ls-tree consumers    *)
(* and the recursive write-tree walk with its canonical entry order.       *)
(*                                                                         *)
(* Bytes are naturals 0..255.  A zlib file is the record                   *)
(* [data, fin]: the bytes that were fed to the encoder and whether the     *)
(* encoder was finished (the stream carries its trailer).  SHA-1 is an     *)
(* ideal hash: `oracle` lists the distinct messages digested so far, and   *)
(* the digest of a message is DigestBase plus its index in that list, so   *)
(* equal messages and only equal messages share a digest.                  *)
(***************************************************************************)
EXTENDS Integers, Sequences, FiniteSets, TLC

VARIABLES
    objects,    \* .git/objects: digest -> zlib file, for the files present
    fanout,     \* the two-hex-digit subdirectories of .git/objects that exist
    tmp,        \* the file `tmp` of the current directory, or NoFile
    wt,         \* the working tree below the current directory, without `tmp`
    oracle,     \* the messages SHA-1 has digested, in order of first digest
    w,          \* the object write in progress (Object::write_to_objects)
    r,          \* the object read in progress (Object::read and its reader)
    stack,      \* the call stack of write_tree_for
    cmd,        \* the command being run and its outcome
    hist        \* the object writes made so far and what each returned

vars == <<objects, fanout, tmp, wt, oracle, w, r, stack, cmd, hist>>

(***************************************************************************)
(* Bounds of the model.                                                    *)
(***************************************************************************)
MaxLen == 2         \* longest payload written through the store
MaxOps == 2         \* object writes and reads in one run of Spec
MaxBuf == 2         \* largest buffer a caller hands to read
MaxSrc == 3         \* longest source behind a LimitReader in SpecLimit
MaxEntries == 2     \* most complete entries in a stored tree payload of SpecDecode

(***************************************************************************)
(* Bytes the code names.                                                   *)
(***************************************************************************)
NUL == 0            \* read_until(0, ..), "\0"
SP == 32            \* split_once(' '), b' '
SLASH == 47         \* b'/'
HashLen == 20       \* [u8; 20]
DigestBase == 1000  \* digests are DigestBase + k: never a byte

Min(a, b) == IF a < b THEN a ELSE b
Max(a, b) == IF a > b THEN a ELSE b
Take(s, n) == SubSeq(s, 1, Min(n, Len(s)))
Drop(s, n) == SubSeq(s, Min(n, Len(s)) + 1, Len(s))
Range(s) == {s[i] : i \in 1..Len(s)}

\* fmt::Display for Kind
KindName(k) ==
    CASE k = "Blob" -> <<98, 108, 111, 98>>
      [] k = "Tree" -> <<116, 114, 101, 101>>
      [] k = "Commit" -> <<99, 111, 109, 109, 105, 116>>

Kinds == {"Blob", "Tree", "Commit"}

\* Display of a u64: decimal digits, no sign, no padding
RECURSIVE Dec(_)
Dec(n) == IF n < 10 THEN <<48 + n>> ELSE Dec(n \div 10) \o <<48 + (n % 10)>>

\* a header that lacks its terminator
HeaderNoNul(kind, size) == KindName(kind) \o <<SP>> \o Dec(size)

\* write!(writer, "{} {}\0", self.kind, self.expected_size)
Header(kind, size) == KindName(kind) \o <<SP>> \o Dec(size) \o <<NUL>>

\* position of the first b in s, 0 when there is none
IndexOf(s, b) ==
    IF \E i \in 1..Len(s) : s[i] = b
    THEN CHOOSE i \in 1..Len(s) : s[i] = b /\ \A j \in 1..(i - 1) : s[j] # b
    ELSE 0

IsDigit(b) == b >= 48 /\ b <= 57

RECURSIVE DigitsValue(_)
DigitsValue(s) ==
    IF Len(s) = 0 THEN 0
    ELSE 10 * DigitsValue(SubSeq(s, 1, Len(s) - 1)) + (s[Len(s)] - 48)

\* str::parse::<u64>: an optional '+', then one or more decimal digits.
\* -1 stands for Err.  (Headers of the model stay far below 2^64.)
ParseU64(s) ==
    LET d == IF Len(s) > 0 /\ s[1] = 43 THEN Drop(s, 1) ELSE s
    IN  IF Len(d) > 0 /\ \A i \in 1..Len(d) : IsDigit(d[i])
        THEN DigitsValue(d) ELSE -1

\* CStr::to_str: the model's bytes are ASCII, or 255, which no UTF-8 text holds
IsUtf8(s) == \A i \in 1..Len(s) : s[i] < 128

\* match kind { "blob" => .., "tree" => .., "commit" => .., _ => bail }
ParseKind(s) ==
    IF \E k \in Kinds : KindName(k) = s
    THEN CHOOSE k \in Kinds : KindName(k) = s ELSE "none"

NoKind == "none"

Outcome(tag, err, kind, size, rest) ==
    [tag |-> tag, err |-> err, kind |-> kind, size |-> size, rest |-> rest]

\* The header decode of Object::read and of cat-file, from the decompressed
\* stream onward: `data` is what the decoder yields, endErr whether it ends in
\* an I/O error instead of EOF, `known` the kinds the caller's match accepts.
DecodeWith(data, endErr, known) ==
    LET i == IndexOf(data, NUL)
        text == SubSeq(data, 1, i - 1)
        sp == IndexOf(text, SP)
        kind == ParseKind(SubSeq(text, 1, sp - 1))
        size == ParseU64(SubSeq(text, sp + 1, Len(text)))
        rest == SubSeq(data, i + 1, Len(data))
    IN  IF i = 0
        THEN IF endErr
             THEN Outcome("Err", "read header", NoKind, 0, <<>>)
             ELSE Outcome("Panic", "there is one nul at the end", NoKind, 0, <<>>)
        ELSE IF ~IsUtf8(text) THEN Outcome("Err", "not UTF-8", NoKind, 0, <<>>)
        ELSE IF sp = 0 THEN Outcome("Err", "no known type", NoKind, 0, <<>>)
        ELSE IF kind \notin known THEN Outcome("Err", "unknown kind", NoKind, 0, <<>>)
        ELSE IF size < 0 THEN Outcome("Err", "invalid size", NoKind, 0, <<>>)
        ELSE Outcome("Ok", "", kind, size, rest)

\* Object::read
DecodeHeader(data, endErr) == DecodeWith(data, endErr, Kinds)

\* cat-file's own copy of the decode: only "blob" is matched
CatFileHeader(data, endErr) == DecodeWith(data, endErr, {"Blob"})

(***************************************************************************)
(* Files.                                                                  *)
(***************************************************************************)
NoFile == [data |-> <<>>, fin |-> FALSE, there |-> FALSE]
ZFile(data, fin) == [data |-> data, fin |-> fin, there |-> TRUE]

\* How a decoder can end on a file: a finished stream ends in EOF; one cut
\* short ends in EOF or in an error, as the inflate implementation decides.
EndModes(f) == IF f.fin THEN {FALSE} ELSE {FALSE, TRUE}

(***************************************************************************)
(* LimitReader over a buffered source.                                     *)
(*   limit   remaining limit                                               *)
(*   src     what the underlying reader has yet to yield                   *)
(*   endErr  the underlying reader ends in an error instead of EOF         *)
(*   avail   how many bytes of src sit in the underlying reader's buffer   *)
(*   peek    length of the slice the last fill_buf returned                *)
(*   out     the bytes handed to the caller so far                         *)
(*   shown   how many source bytes the caller has been shown              *)
(*   ended   the caller has observed end of data                           *)
(*   offer   how many bytes the source held when the reader was made       *)
(*   last    the last call and its result                                  *)
(***************************************************************************)
NoCall == [op |-> "none", n |-> 0, ok |-> TRUE, err |-> "", at0 |-> FALSE, more |-> FALSE]
Call(op, n, ok, err) ==
    [op |-> op, n |-> n, ok |-> ok, err |-> err,
     at0 |-> r.limit = 0, more |-> Len(r.src) > 0]

IdleReader ==
    [pc |-> "idle", who |-> "none", kind |-> NoKind, size |-> 0, limit |-> 0,
     src |-> <<>>, endErr |-> FALSE, avail |-> 0, peek |-> 0, out |-> <<>>,
     shown |-> 0, ended |-> FALSE, offer |-> 0, last |-> NoCall]

OpenReader(who, kind, size, src, endErr, avail) ==
    [pc |-> "open", who |-> who, kind |-> kind, size |-> size, limit |-> size,
     src |-> src, endErr |-> endErr, avail |-> avail, peek |-> 0, out |-> <<>>,
     shown |-> 0, ended |-> FALSE, offer |-> Len(src), last |-> NoCall]

\* the buffer read hands to the underlying reader
ClampBuf(k, limit) == IF k > limit THEN limit + 1 ELSE k

\* fill_buf that hands on the whole underlying buffer
ClampPeekWhole(buflen, limit) == buflen

\* the slice fill_buf returns, given what the underlying fill_buf returned
ClampPeek(buflen, limit) == IF buflen > limit THEN limit ELSE buflen

\* the amount consume takes
ClampConsume(amount, limit) == Min(amount, limit)

\* the verdict of read on the count the underlying reader returned
Overrun(n, limit) == n > limit

\* what the underlying reader's buffer holds after it is asked for bytes: it
\* keeps what it has, refills with any non-empty read when empty
Fills == IF r.avail > 0 THEN {r.avail} ELSE 1..Len(r.src)

\* impl Read for LimitReader: read into a buffer of k bytes
LimitRead(k) ==
    /\ r.pc = "open"
    /\ LET kk == ClampBuf(k, r.limit) IN
       IF Len(r.src) = 0
       THEN IF r.endErr
            THEN r' = [r EXCEPT !.pc = "err", !.peek = 0,
                                !.last = Call("read", 0, FALSE, "io")]
            ELSE r' = [r EXCEPT !.ended = TRUE, !.peek = 0,
                                !.last = Call("read", 0, TRUE, "")]
       ELSE \E m \in Fills :
            LET n == Min(kk, m) IN
            IF Overrun(n, r.limit)
            THEN r' = [r EXCEPT !.pc = "err", !.peek = 0,
                                !.src = Drop(r.src, n), !.avail = m - n,
                                !.last = Call("read", 0, FALSE, "too many bytes")]
            ELSE r' = [r EXCEPT !.limit = r.limit - n, !.peek = 0,
                                !.src = Drop(r.src, n), !.avail = m - n,
                                !.out = r.out \o Take(r.src, n),
                                !.shown = Max(r.shown, Len(r.out) + n),
                                !.last = Call("read", n, TRUE, "")]

\* impl BufRead for LimitReader: fill_buf
LimitFillBuf ==
    /\ r.pc = "open"
    /\ IF Len(r.src) = 0
       THEN IF r.endErr
            THEN r' = [r EXCEPT !.pc = "err", !.peek = 0,
                                !.last = Call("fill_buf", 0, FALSE, "io")]
            ELSE r' = [r EXCEPT !.ended = TRUE, !.peek = 0,
                                !.last = Call("fill_buf", 0, TRUE, "")]
       ELSE \E m \in Fills :
            LET p == ClampPeek(m, r.limit) IN
            r' = [r EXCEPT !.avail = m, !.peek = p,
                           !.ended = (r.ended \/ p = 0),
                           !.shown = Max(r.shown, Len(r.out) + p),
                           !.last = Call("fill_buf", p, TRUE, "")]

\* impl BufRead for LimitReader: consume(amount), amount within the last slice
LimitConsume(amount) ==
    /\ r.pc = "open"
    /\ amount <= r.peek
    /\ LET a == ClampConsume(amount, r.limit) IN
       r' = [r EXCEPT !.limit = r.limit - a, !.peek = 0,
                      !.src = Drop(r.src, a), !.avail = r.avail - a,
                      !.out = r.out \o Take(r.src, a),
                      !.last = Call("consume", a, TRUE, "")]

(***************************************************************************)
(* Idle values of the parts a specification does not use.                  *)
(***************************************************************************)
NoSource == [type |-> "none", bytes |-> <<>>, path |-> <<>>]
Cursor(bytes) == [type |-> "cursor", bytes |-> bytes, path |-> <<>>]
FileHandle(path) == [type |-> "file", bytes |-> <<>>, path |-> path]

IdleWriter ==
    [pc |-> "idle", who |-> "none", kind |-> NoKind, size |-> 0, src |-> NoSource,
     toTmp |-> FALSE, hasher |-> <<>>, payload |-> <<>>, copied |-> 0, hash |-> 0,
     raced |-> FALSE, again |-> FALSE, retry |-> FALSE]

NoCmd == [name |-> "none", res |-> "none", err |-> "", out |-> <<>>, id |-> 0, left |-> 0]

\* one more operation may start: the process is single-threaded, and `left`
\* bounds how many operations a run performs
CanStart == cmd.res # "running" /\ cmd.left > 0

Cmd(name, res, err, out, id) ==
    [name |-> name, res |-> res, err |-> err, out |-> out, id |-> id,
     left |-> cmd.left - 1]

EmptyStore == [h \in {} |-> NoFile]
EmptyTree == [p \in {} |-> NoFile]

(***************************************************************************)
(* SpecLimit: a LimitReader with any limit over any source, driven by any  *)
(* sequence of read, fill_buf and consume calls.                           *)
(***************************************************************************)
\* the source <<97, 98, ..>> of n bytes: byte i of the source is 96 + i
SourceOf(n) == [i \in 1..n |-> 96 + i]

InitLimit ==
    /\ \E L \in 0..MaxSrc, n \in 0..MaxSrc, e \in BOOLEAN, a \in 0..MaxSrc :
          /\ a <= n
          /\ r = OpenReader("any", NoKind, L, SourceOf(n), e, a)
    /\ objects = EmptyStore /\ fanout = {} /\ tmp = NoFile /\ wt = EmptyTree
    /\ oracle = <<>> /\ w = IdleWriter /\ stack = <<>> /\ cmd = NoCmd /\ hist = {}

CallRead ==
    /\ r.who = "any"
    /\ \E k \in 1..MaxBuf : LimitRead(k)
    /\ UNCHANGED <<objects, fanout, tmp, wt, oracle, w, stack, cmd, hist>>

CallFillBuf ==
    /\ r.who = "any"
    /\ LimitFillBuf
    /\ UNCHANGED <<objects, fanout, tmp, wt, oracle, w, stack, cmd, hist>>

CallConsume ==
    /\ r.who = "any"
    /\ \E a \in 1..r.peek : LimitConsume(a)
    /\ UNCHANGED <<objects, fanout, tmp, wt, oracle, w, stack, cmd, hist>>

NextLimit == CallRead \/ CallFillBuf \/ CallConsume

SpecLimit == InitLimit /\ [][NextLimit]_vars

(***************************************************************************)
(* Tree payloads and the ls-tree loop.                                     *)
(***************************************************************************)
\* the 20 raw bytes of digest h in a tree payload
HashBytes(h) == [i \in 1..HashLen |-> h]

\* hex::encode(hash_buf) as the name of a stored object: 0 names none
HashOfBytes(buf) ==
    IF Len(buf) = HashLen /\ buf[1] >= DigestBase /\ \A i \in 1..Len(buf) : buf[i] = buf[1]
    THEN buf[1] ELSE 0

\* tree_object.extend(mode); push(b' '); extend(name); push(0); extend(hash)
TreeEntry(mode, name, h) == mode \o <<SP>> \o name \o <<NUL>> \o HashBytes(h)

Mode100644 == <<49, 48, 48, 54, 52, 52>>
Mode100755 == <<49, 48, 48, 55, 53, 53>>
Mode120000 == <<49, 50, 48, 48, 48, 48>>
Mode40000 == <<52, 48, 48, 48, 48>>

\* BufRead::read_until(0, ..) on a LimitReader: fill_buf and consume until a
\* NUL was taken or fill_buf returns nothing
LimitReadUntil(limit, src, endErr) ==
    LET visible == Take(src, limit)
        i == IndexOf(visible, NUL)
        used == IF i > 0 THEN i ELSE Len(visible)
    IN  [ok |-> i > 0 \/ Len(src) > used \/ ~endErr,
         buf |-> Take(visible, used),
         limit |-> limit - used,
         src |-> Drop(src, used)]

\* Read::read_exact(k bytes) on a LimitReader: read until the buffer is full;
\* a zero-byte read is UnexpectedEof
LimitReadExact(limit, src, endErr, k) ==
    IF k <= limit /\ k <= Len(src)
    THEN [ok |-> TRUE, err |-> "", buf |-> Take(src, k),
          limit |-> limit - k, src |-> Drop(src, k)]
    ELSE [ok |-> FALSE,
          err |-> IF Len(src) > limit THEN "too many bytes"
                  ELSE IF endErr THEN "io" ELSE "UnexpectedEof",
          buf |-> <<>>, limit |-> limit, src |-> src]

\* Object::read(hash) as ls-tree calls it for an entry: the tag of its result
ReadTag(h, ends) ==
    IF h \notin DOMAIN objects THEN "Err"
    ELSE DecodeHeader(objects[h].data, ends[h]).tag

ReadKindOf(h, ends) == DecodeHeader(objects[h].data, ends[h]).kind

\* {mode:0>6}
PadMode(mode) == [i \in 1..(6 - Len(mode)) |-> 48] \o mode

\* the loop of ls-tree over the reader of a tree object
RECURSIVE LsLoop(_, _, _, _, _, _)
LsLoop(limit, src, endErr, nameOnly, ends, out) ==
    LET ru == LimitReadUntil(limit, src, endErr)
        re == LimitReadExact(ru.limit, ru.src, endErr, HashLen)
        text == SubSeq(ru.buf, 1, Len(ru.buf) - 1)
        sp == IndexOf(text, SP)
        mode == IF sp = 0 THEN text ELSE SubSeq(text, 1, sp - 1)
        name == SubSeq(text, sp + 1, Len(text))
        h == HashOfBytes(re.buf)
    IN  IF ~ru.ok THEN [res |-> "Err", err |-> "read next tree object entry", out |-> out]
        ELSE IF Len(ru.buf) = 0 THEN [res |-> "Ok", err |-> "", out |-> out]
        ELSE IF ~re.ok THEN [res |-> "Err", err |-> re.err, out |-> out]
        ELSE IF ru.buf[Len(ru.buf)] # NUL
             THEN [res |-> "Err", err |-> "invalid tree entry", out |-> out]
        ELSE IF sp = 0
             THEN [res |-> "Err", err |-> "tree entry has no file name", out |-> out]
        ELSE IF nameOnly
             THEN LsLoop(re.limit, re.src, endErr, nameOnly, ends, out \o name \o <<10>>)
        ELSE IF ~IsUtf8(mode)
             THEN [res |-> "Err", err |-> "mode is always valid UTF-8", out |-> out]
        ELSE IF ReadTag(h, ends) # "Ok"
             THEN [res |-> ReadTag(h, ends), err |-> "read object for tree entry", out |-> out]
        ELSE LsLoop(re.limit, re.src, endErr, nameOnly, ends,
                    out \o PadMode(mode) \o <<SP>> \o KindName(ReadKindOf(h, ends))
                        \o <<SP, h, 9>> \o name)

(***************************************************************************)
(* SpecDecode: the readers of the store (Object::read, cat-file -p,        *)
(* ls-tree) on a store that holds one object file with any content, as     *)
(* a file edited by hand or cut short may have, and maybe the blob its     *)
(* tree entries name.                                                      *)
(***************************************************************************)
Text(kindText, sizeText) == kindText \o <<SP>> \o sizeText \o <<NUL>>

\* payloads of at most n bytes over the bytes NUL and 'a'
RECURSIVE PayloadsUpTo(_)
PayloadsUpTo(n) ==
    IF n = 0 THEN {<<>>}
    ELSE PayloadsUpTo(n - 1) \cup
         {p \o <<b>> : p \in {q \in PayloadsUpTo(n - 1) : Len(q) = n - 1}, b \in {NUL, 97}}

TheTree == DigestBase + 1
TheBlob == DigestBase + 2

RECURSIVE EntriesUpTo(_)
EntriesUpTo(n) ==
    IF n = 0 THEN <<>>
    ELSE EntriesUpTo(n - 1) \o TreeEntry(Mode100644, <<96 + n>>, TheBlob)

TreePayloads ==
    {EntriesUpTo(n) \o tail :
        n \in 0..MaxEntries,
        tail \in {<<>>, Mode100644 \o <<SP, 122>>, <<122, NUL>> \o HashBytes(TheBlob)}}

BadHeaders ==
    { <<>>,                                       \* empty stream
      KindName("Blob") \o <<SP, 49>>,             \* "blob 1", no NUL
      <<255, SP, 49, NUL>>,                       \* not UTF-8
      KindName("Blob") \o <<NUL>>,                \* no space
      Text(<<116, 97, 103>>, <<49>>),             \* "tag 1"
      Text(KindName("Blob"), <<>>),               \* "blob "
      Text(KindName("Blob"), <<45, 49>>),         \* "blob -1"
      Text(KindName("Blob"), <<49, SP, 50>>),     \* "blob 1 2"
      Text(KindName("Tree"), <<43, 49>>) \o <<97>>,   \* "tree +1"
      Text(KindName("Commit"), <<48, 49>>) \o <<97>> } \* "commit 01"

Streams ==
    BadHeaders
    \cup {Header(k, n) \o p : k \in Kinds, p \in PayloadsUpTo(MaxLen), n \in 0..(MaxLen + 1)}
    \cup {Header("Tree", n) \o p : p \in TreePayloads,
                                   n \in 0..(MaxEntries * (Len(Mode100644) + 3 + HashLen) + 1)}

InitDecode ==
    /\ \E s \in Streams, fin \in BOOLEAN, withBlob \in BOOLEAN :
          objects = [h \in {TheTree} \cup (IF withBlob THEN {TheBlob} ELSE {}) |->
                        IF h = TheTree THEN ZFile(s, fin)
                        ELSE ZFile(Header("Blob", 1) \o <<97>>, TRUE)]
    /\ fanout = {} /\ tmp = NoFile /\ wt = EmptyTree /\ oracle = <<>>
    /\ w = IdleWriter /\ r = IdleReader /\ stack = <<>>
    /\ cmd = [NoCmd EXCEPT !.left = 1] /\ hist = {}

Ids == {TheTree, TheBlob, DigestBase + 3}

\* Object::read(hash): the Object goes to a caller `who`; after read_until
\* the BufReader may still hold any part of the payload
ObjectRead(who, ids) ==
    /\ CanStart
    /\ \E h \in ids :
        IF h \notin DOMAIN objects
        THEN /\ cmd' = Cmd("read", "Err", "open in .git/objects", <<>>, h)
             /\ r' = IdleReader
        ELSE \E e \in EndModes(objects[h]) :
             LET d == DecodeHeader(objects[h].data, e) IN
             /\ cmd' = Cmd("read", d.tag, d.err, <<>>, h)
             /\ IF d.tag = "Ok"
                THEN \E a \in 0..Len(d.rest) :
                        r' = OpenReader(who, d.kind, d.size, d.rest, e, a)
                ELSE r' = IdleReader

\* Object::read(hash) by a caller that only holds the Object
ReadObject ==
    /\ ObjectRead("held", Ids)
    /\ UNCHANGED <<objects, fanout, tmp, wt, oracle, w, stack, hist>>

\* cat-file: up to the LimitReader being made
CatFileOpen ==
    /\ CanStart
    /\ \E h \in Ids, prettyPrint \in BOOLEAN :
        IF ~prettyPrint
        THEN /\ cmd' = Cmd("cat-file", "Err", "mode must be given", <<>>, h)
             /\ r' = r
        ELSE IF h \notin DOMAIN objects
        THEN /\ cmd' = Cmd("cat-file", "Err", "open in .git/objects", <<>>, h)
             /\ r' = r
        ELSE \E e \in EndModes(objects[h]) :
             LET d == CatFileHeader(objects[h].data, e) IN
             /\ cmd' = Cmd("cat-file", IF d.tag = "Ok" THEN "running" ELSE d.tag,
                           d.err, <<>>, h)
             /\ IF d.tag = "Ok"
                THEN \E a \in 0..Len(d.rest) :
                        r' = OpenReader("cat", d.kind, d.size, d.rest, e, a)
                ELSE r' = r
    /\ UNCHANGED <<objects, fanout, tmp, wt, oracle, w, stack, hist>>

\* cat-file: one round of std::io::copy(&mut z, &mut stdout)
CatFileCopy ==
    /\ cmd.name = "cat-file" /\ cmd.res = "running"
    /\ r.who = "cat" /\ ~r.ended
    /\ \E k \in 1..MaxBuf : LimitRead(k)
    /\ cmd' = [cmd EXCEPT !.out = r'.out,
                          !.res = IF r'.pc = "err" THEN "Err" ELSE "running",
                          !.err = r'.last.err]
    /\ UNCHANGED <<objects, fanout, tmp, wt, oracle, w, stack, hist>>

\* the check after the copy
SizeMatches(n, size) == n = size

\* cat-file: anyhow::ensure!(n == size, ..) once the copy has seen end of data
CatFileEnsure ==
    /\ cmd.name = "cat-file" /\ cmd.res = "running"
    /\ r.who = "cat" /\ r.ended
    /\ cmd' = IF SizeMatches(Len(r.out), r.size)
               THEN [cmd EXCEPT !.res = "Ok"]
               ELSE [cmd EXCEPT !.res = "Err", !.err = "not the expected size"]
    /\ r' = [r EXCEPT !.pc = "closed"]
    /\ UNCHANGED <<objects, fanout, tmp, wt, oracle, w, stack, hist>>

\* ls-tree
LsTree ==
    /\ CanStart
    /\ \E h \in Ids, nameOnly \in BOOLEAN :
        IF h \notin DOMAIN objects
        THEN cmd' = Cmd("ls-tree", "Err", "open in .git/objects", <<>>, h)
        ELSE \E ends \in [DOMAIN objects -> BOOLEAN] :
             /\ \A x \in DOMAIN objects : ends[x] \in EndModes(objects[x])
             /\ LET d == DecodeHeader(objects[h].data, ends[h])
                    l == LsLoop(d.size, d.rest, ends[h], nameOnly, ends, <<>>)
                IN  cmd' = IF d.tag # "Ok" THEN Cmd("ls-tree", d.tag, d.err, <<>>, h)
                           ELSE IF d.kind # "Tree"
                           THEN Cmd("ls-tree", "Err", "cannot ls kind", <<>>, h)
                           ELSE Cmd("ls-tree", l.res, l.err, l.out, h)
    /\ UNCHANGED <<objects, fanout, tmp, wt, oracle, w, r, stack, hist>>

NextDecode == ReadObject \/ CatFileOpen \/ CatFileCopy \/ CatFileEnsure \/ LsTree

SpecDecode == InitDecode /\ [][NextDecode]_vars

(***************************************************************************)
(* The write path: Object::write into `tmp`, then the rename into          *)
(* .git/objects (write_to_objects, the blob branch of write_tree_for and   *)
(* hash-object -w, which each spell out the same steps).                   *)
(***************************************************************************)
FanDirs == 256      \* &hash_hex[..2]: two hex digits

\* the subdirectory of .git/objects a digest goes to
Fan(h) == h % FanDirs

\* Sha1::finalize on the bytes fed: the digest of a message is its place
\* among the messages digested so far
Digested(tbl, msg) == IF IndexOf(tbl, msg) > 0 THEN tbl ELSE Append(tbl, msg)

\* a digest that depends on when it is taken, not only on the message
DigestByTime(tbl, msg) == DigestBase + Len(tbl) + 1

Digest(tbl, msg) == DigestBase + IndexOf(Digested(tbl, msg), msg)

\* a hasher fed the whole buffer, whatever the sink took of it
HashUpdateWhole(hasher, buf, n) == hasher \o buf

\* HashWriter::write: the sink took the first n bytes of buf
HashUpdate(hasher, buf, n) == hasher \o Take(buf, n)

\* the file a ZlibEncoder<File> has been fed more bytes
Fed(f, bytes) == [f EXCEPT !.data = @ \o bytes]

File(data) == [type |-> "file", data |-> data, exec |-> FALSE]
Dir == [type |-> "dir", data |-> <<>>, exec |-> FALSE]

\* let tmp = "tmp": the temporary file is the file of that name in the
\* current directory, the root of the working directory.  A working file
\* there is that same file: tmp holds the stream written into it, and wt
\* keeps its place, as "gone" once the rename has taken it away.
NameTmp == <<116, 109, 112>>
TmpPath == <<NameTmp>>

\* the working directory after File::create(tmp): a file at tmp is emptied
Truncated0(t) ==
    IF TmpPath \in DOMAIN t THEN [t EXCEPT ![TmpPath].data = <<>>] ELSE t

\* the working directory after tmp was renamed into the store
Renamed(t) ==
    IF TmpPath \in DOMAIN t THEN [t EXCEPT ![TmpPath].type = "gone"] ELSE t

\* the first bytes of a zlib stream, 0x78 0x9C
ZlibMagic == <<120, 156>>

\* a write that has just been started; retry says that the write before it
\* was abandoned with its temporary file
NewWrite(who, kind, size, src, toTmp, pc) ==
    [pc |-> pc, who |-> who, kind |-> kind, size |-> size, src |-> src,
     toTmp |-> toTmp, hasher |-> <<>>, payload |-> <<>>, copied |-> 0, hash |-> 0,
     raced |-> FALSE, again |-> FALSE, retry |-> w.retry /\ w.pc = "failed"]

\* what is left of a write once it has returned
Returned(pc, kind, size, copied, hash, again) ==
    [IdleWriter EXCEPT !.pc = pc, !.kind = kind, !.size = size, !.copied = copied,
                       !.hash = hash, !.again = again]

\* the record of a write that returned Ok(hash)
Entry(kind, size, payload, hash, stored) ==
    [kind |-> kind, size |-> size, payload |-> payload, hash |-> hash,
     stored |-> stored]

\* the same (kind, size, payload) was written before
WrittenBefore == \E e \in hist :
    e.kind = w.kind /\ e.size = w.size /\ e.payload = w.payload

\* the payloads written through the store: runs of 'a' of up to MaxLen bytes,
\* and the longest of them with a NUL for its last byte
Payloads ==
    {[i \in 1..n |-> 97] : n \in 0..MaxLen}
    \cup {[i \in 1..MaxLen |-> IF i = MaxLen THEN NUL ELSE 97]}

\* an Object over an in-memory payload (a tree, a commit) enters write_to_objects
StartWrite ==
    /\ CanStart
    /\ \E k \in Kinds, p \in Payloads :
          w' = NewWrite("write_to_objects", k, Len(p), Cursor(p), TRUE, "create")
    /\ cmd' = Cmd("write", "running", "", <<>>, 0)
    /\ r' = IdleReader
    /\ UNCHANGED <<objects, fanout, tmp, wt, oracle, stack, hist>>

\* Object::blob_from_file(path), to be written as the blob branch of
\* write_tree_for writes it
StartBlobFromFile ==
    /\ CanStart
    /\ \E path \in DOMAIN wt :
          /\ wt[path].type = "file"
          /\ w' = NewWrite("blob_from_file", "Blob", Len(wt[path].data),
                           FileHandle(path), TRUE, "create")
    /\ cmd' = Cmd("write", "running", "", <<>>, 0)
    /\ r' = IdleReader
    /\ UNCHANGED <<objects, fanout, tmp, wt, oracle, stack, hist>>

\* hash-object [-w] file
StartHashObject ==
    /\ CanStart
    /\ \E path \in DOMAIN wt, write \in BOOLEAN :
          /\ wt[path].type = "file"
          /\ w' = NewWrite("hash-object", "Blob", 0, FileHandle(path), write,
                           IF write THEN "create" ELSE "meta")
    /\ cmd' = Cmd("hash-object", "running", "", <<>>, 0)
    /\ r' = IdleReader
    /\ UNCHANGED <<objects, fanout, tmp, wt, oracle, stack, hist>>

\* a temporary file opened as it is, what it holds kept
CreateTmpKept ==
    /\ w.pc = "create"
    /\ tmp' = IF tmp.there THEN [tmp EXCEPT !.fin = FALSE] ELSE ZFile(<<>>, FALSE)
    /\ w' = [w EXCEPT !.pc = IF w.who = "hash-object" THEN "meta" ELSE "header"]
    /\ UNCHANGED <<objects, fanout, wt, oracle, r, stack, cmd, hist>>

\* std::fs::File::create(tmp): the file is made, or emptied when it exists;
\* over a directory of that name it can only fail
CreateTmp ==
    /\ w.pc = "create"
    /\ ~(TmpPath \in DOMAIN wt /\ wt[TmpPath].type = "dir")
    /\ tmp' = ZFile(<<>>, FALSE)
    /\ wt' = Truncated0(wt)
    /\ w' = [w EXCEPT !.pc = IF w.who = "hash-object" THEN "meta" ELSE "header"]
    /\ UNCHANGED <<objects, fanout, oracle, r, stack, cmd, hist>>

\* write_blob of hash-object: std::fs::metadata(file).size()
Metadata ==
    /\ w.pc = "meta"
    /\ w' = [w EXCEPT !.pc = "header", !.size = Len(wt[w.src.path].data)]
    /\ UNCHANGED <<objects, fanout, tmp, wt, oracle, r, stack, cmd, hist>>

\* write!(writer, "{} {}\0", self.kind, self.expected_size)
WriteHeader ==
    /\ w.pc = "header"
    /\ LET h == Header(w.kind, w.size) IN
       /\ w' = [w EXCEPT !.pc = "copy", !.hasher = HashUpdate(@, h, Len(h))]
       /\ tmp' = IF w.toTmp THEN Fed(tmp, h) ELSE tmp
    /\ UNCHANGED <<objects, fanout, wt, oracle, r, stack, cmd, hist>>

\* what the payload source yields when it is copied
SourceBytes == IF w.src.type = "cursor" THEN w.src.bytes ELSE wt[w.src.path].data

\* what the copy can read: the source's bytes, but from a source that is the
\* temporary file being written, what the encoder has put on disk by then,
\* nothing or the first bytes of the stream
SourceReads ==
    IF w.src.type = "file" /\ w.toTmp /\ w.src.path = TmpPath
    THEN {<<>>, ZlibMagic}
    ELSE {SourceBytes}

\* std::io::copy(&mut self.reader, &mut writer): whatever the source yields
\* goes to the writer; the count copied is dropped
CopyPayload ==
    /\ w.pc = "copy"
    /\ \E p \in SourceReads :
       /\ w' = [w EXCEPT !.pc = "finish", !.hasher = HashUpdate(@, p, Len(p)),
                         !.payload = p, !.copied = Len(p)]
       /\ tmp' = IF w.toTmp THEN Fed(tmp, p) ELSE tmp
    /\ UNCHANGED <<objects, fanout, wt, oracle, r, stack, cmd, hist>>

\* a write that takes the digest and leaves the encoder unfinished
FinishSkipped ==
    /\ w.pc = "finish"
    /\ LET h == Digest(oracle, w.hasher) IN
       /\ oracle' = Digested(oracle, w.hasher)
       /\ w' = IF w.toTmp THEN [w EXCEPT !.hash = h, !.pc = "mkdir"]
                ELSE Returned("done", w.kind, w.size, w.copied, h, FALSE)
       /\ cmd' = IF w.toTmp THEN cmd ELSE [cmd EXCEPT !.res = "Ok", !.id = h]
    /\ UNCHANGED <<objects, fanout, tmp, wt, r, stack, hist>>

\* writer.writer.finish() and writer.hasher.finalize()
Finish ==
    /\ w.pc = "finish"
    /\ LET h == Digest(oracle, w.hasher) IN
       /\ oracle' = Digested(oracle, w.hasher)
       /\ tmp' = IF w.toTmp THEN [tmp EXCEPT !.fin = TRUE] ELSE tmp
       /\ w' = IF w.toTmp THEN [w EXCEPT !.hash = h, !.pc = "mkdir"]
                ELSE Returned("done", w.kind, w.size, w.copied, h, FALSE)
       /\ cmd' = IF w.toTmp THEN cmd ELSE [cmd EXCEPT !.res = "Ok", !.id = h]
    /\ UNCHANGED <<objects, fanout, wt, r, stack, hist>>

\* std::fs::create_dir_all(".git/objects/<2 hex>/")
MkDir ==
    /\ w.pc = "mkdir"
    /\ fanout' = fanout \cup {Fan(w.hash)}
    /\ w' = [w EXCEPT !.pc = "rename"]
    /\ UNCHANGED <<objects, tmp, wt, oracle, r, stack, cmd, hist>>

\* the store after `file` was moved to the path of digest h
Published(store, h, file) ==
    [x \in DOMAIN store \cup {h} |-> IF x = h THEN file ELSE store[x]]

\* a write that returns its digest with the file left at tmp
RenameSkipped ==
    /\ w.pc = "rename"
    /\ w' = [Returned("done", w.kind, w.size, w.copied, w.hash, WrittenBefore)
                EXCEPT !.retry = w.retry]
    /\ cmd' = IF stack = <<>> THEN [cmd EXCEPT !.res = "Ok", !.id = w.hash] ELSE cmd
    /\ UNCHANGED <<objects, fanout, tmp, wt, oracle, r, stack, hist>>

\* std::fs::rename(tmp, ".git/objects/<2 hex>/<38 hex>")
Rename ==
    /\ w.pc = "rename"
    /\ objects' = Published(objects, w.hash, tmp)
    /\ tmp' = NoFile
    /\ w' = [Returned("done", w.kind, w.size, w.copied, w.hash, WrittenBefore)
                EXCEPT !.retry = w.retry]
    /\ cmd' = IF stack = <<>> THEN [cmd EXCEPT !.res = "Ok", !.id = w.hash] ELSE cmd
    /\ hist' = hist \cup {Entry(w.kind, w.size, w.payload, w.hash, tmp)}
    /\ wt' = Renamed(wt)
    /\ UNCHANGED <<fanout, oracle, r, stack>>

\* any step of the write fails with an I/O error, which `?` hands up through
\* every caller: the write is over, a walk of write_tree_for is over, and tmp
\* stays as it is.  Dropping a ZlibEncoder that was not finished tries to
\* finish it, which may or may not succeed.
WriteFails ==
    /\ w.pc \in {"create", "meta", "header", "copy", "finish", "mkdir", "rename"}
    /\ w' = [Returned("failed", NoKind, 0, 0, 0, FALSE)
                EXCEPT !.retry = w.toTmp /\ w.pc \in {"create", "header", "copy", "finish"}]
    /\ IF w.toTmp /\ w.pc \in {"header", "copy", "finish"}
       THEN \E f \in BOOLEAN : tmp' = [tmp EXCEPT !.fin = f]
       ELSE tmp' = tmp
    /\ cmd' = [cmd EXCEPT !.res = "Err", !.err = "io"]
    /\ stack' = <<>>
    /\ UNCHANGED <<objects, fanout, wt, oracle, r, hist>>

\* the working file changes between the metadata fetch and the copy (the
\* race the TODO in blob_from_file names)
FileChanges ==
    /\ w.src.type = "file" /\ ~w.raced
    /\ w.pc \in {"create", "header", "copy"}
    /\ w.who = "hash-object" => w.pc # "create"
    /\ \E d \in Payloads :
          /\ d # wt[w.src.path].data
          /\ wt' = [wt EXCEPT ![w.src.path] = File(d)]
    /\ w' = [w EXCEPT !.raced = TRUE]
    /\ UNCHANGED <<objects, fanout, tmp, oracle, r, stack, cmd, hist>>

\* Object::read of a stored object, or of a digest the store does not hold
ReadStored ==
    /\ ObjectRead("any", DOMAIN objects \cup {DigestBase})
    /\ w' = IdleWriter
    /\ UNCHANGED <<objects, fanout, tmp, wt, oracle, stack, hist>>

NameA == <<97>>

Init ==
    /\ objects = EmptyStore /\ fanout = {} /\ tmp = NoFile
    /\ wt = [p \in {<<NameA>>} |-> File(<<97>>)]
    /\ oracle = <<>> /\ w = IdleWriter /\ r = IdleReader /\ stack = <<>>
    /\ cmd = [NoCmd EXCEPT !.left = MaxOps] /\ hist = {}

Next ==
    \/ StartWrite \/ StartBlobFromFile \/ StartHashObject
    \/ CreateTmp \/ Metadata \/ WriteHeader \/ CopyPayload \/ Finish
    \/ MkDir \/ Rename \/ WriteFails \/ FileChanges
    \/ ReadStored \/ CallRead \/ CallFillBuf \/ CallConsume

Spec == Init /\ [][Next]_vars

(***************************************************************************)
(* write-tree: the walk of write_tree_for over a working directory         *)
(* (SpecTree).  A path is the sequence of the names on it; the walk's      *)
(* recursion is the stack of its frames.                                   *)
(***************************************************************************)
MaxNodes == 3       \* most files and directories in the working directory
MaxDepth == 2       \* deepest path in the working directory

NameAC == <<97, 46, 99>>            \* "a.c"
DotGit == <<46, 103, 105, 116>>     \* ".git"
NameHead == <<72, 69, 65, 68>>      \* "HEAD"
\* "ref: refs/heads/main\n"
HeadText ==
    <<114, 101, 102, 58, 32, 114, 101, 102, 115, 47, 104, 101, 97, 100, 115, 47,
      109, 97, 105, 110, 10>>
WorkNames == {NameA, NameAC, NameTmp}

\* Option<u8>::None, which orders below every Some(c)
None == 0 - 1

\* afn[..common_len].cmp(&bfn[..common_len]) of two slices of one length
SliceCmp(x, y) ==
    LET d == {i \in 1..Len(x) : x[i] # y[i]} IN
    IF d = {} THEN 0
    ELSE LET i == CHOOSE k \in d : \A j \in d : k <= j IN
         IF x[i] < y[i] THEN 0 - 1 ELSE 1

\* a next byte that gives a directory nothing after its name
NextByteOfName(name, isDir, n) == IF Len(name) > n THEN name[n + 1] ELSE None

\* c1, c2: the byte after the common prefix, '/' after the name of a directory
NextByte(name, isDir, n) ==
    IF Len(name) > n THEN name[n + 1] ELSE IF isDir THEN SLASH ELSE None

\* a comparison of the names as they are, a shorter name first
CompareByName(a, b) ==
    LET n == Min(Len(a.name), Len(b.name))
        o == SliceCmp(Take(a.name, n), Take(b.name, n))
    IN  IF o # 0 THEN o
        ELSE IF Len(a.name) < Len(b.name) THEN 0 - 1
        ELSE IF Len(a.name) > Len(b.name) THEN 1 ELSE 0

\* the closure handed to sort_unstable_by: -1 Less, 0 Equal, 1 Greater
Compare(a, b) ==
    LET n == Min(Len(a.name), Len(b.name))
        o == SliceCmp(Take(a.name, n), Take(b.name, n))
        c1 == NextByte(a.name, a.type = "dir", n)
        c2 == NextByte(b.name, b.type = "dir", n)
    IN  IF o # 0 THEN o
        ELSE IF Len(a.name) = Len(b.name) THEN 0
        ELSE IF c1 < c2 THEN 0 - 1 ELSE IF c1 > c2 THEN 1 ELSE 0

\* fs::read_dir(path): the entries of the directory, in no order
Children(p) ==
    {q \in DOMAIN wt : Len(q) = Len(p) + 1 /\ Take(q, Len(p)) = p /\ wt[q].type # "gone"}
DirEntries(p) ==
    {[name |-> q[Len(q)], type |-> wt[q].type, exec |-> wt[q].exec] : q \in Children(p)}

\* entries.sort_unstable_by(..): every order of the entries the comparator
\* is content with
SortedOrders(S) ==
    LET n == Cardinality(S) IN
    {s \in [1..n -> S] :
        /\ \A i, j \in 1..n : i # j => s[i] # s[j]
        /\ \A i, j \in 1..n : i < j => Compare(s[i], s[j]) <= 0}

\* file_name == ".git"
SkipsNothing(name) == FALSE
SkipsGit(name) == name = DotGit

\* mode: directory, symbolic link, executable file, regular file
ModeOf(e) ==
    IF e.type = "dir" THEN Mode40000
    ELSE IF e.type = "symlink" THEN Mode120000
    ELSE IF e.exec THEN Mode100755
    ELSE Mode100644

\* what an entry of the loop came to: skipped as .git, a directory that
\* returned None, or the digest that was appended
Skipped == 0 - 1
NoHash == 0

\* a call of write_tree_for(path) that has read and sorted its directory
Frame(path, entries) ==
    [path |-> path, entries |-> entries, i |-> 1, tree |-> <<>>, got |-> <<>>,
     pc |-> "loop"]
Top == stack[Len(stack)]
SetTop(f) == [stack EXCEPT ![Len(stack)] = f]
AtEntry == stack # <<>> /\ Top.pc = "loop" /\ Top.i <= Len(Top.entries)
Advance(f, result, bytes) ==
    [f EXCEPT !.i = @ + 1, !.tree = @ \o bytes, !.got = Append(@, result),
              !.pc = "loop"]

\* write-tree: invoke calls write_tree_for(current_dir)
StartWriteTree ==
    /\ CanStart /\ stack = <<>>
    /\ \E s \in SortedOrders(DirEntries(<<>>)) : stack' = <<Frame(<<>>, s)>>
    /\ cmd' = Cmd("write-tree", "running", "", <<>>, 0)
    /\ w' = IdleWriter /\ r' = IdleReader
    /\ UNCHANGED <<objects, fanout, tmp, wt, oracle, hist>>

\* if file_name == ".git" { continue }
SkipGit ==
    /\ AtEntry /\ SkipsGit(Top.entries[Top.i].name)
    /\ stack' = SetTop(Advance(Top, Skipped, <<>>))
    /\ UNCHANGED <<objects, fanout, tmp, wt, oracle, w, r, cmd, hist>>

\* write_tree_for(&path) for an entry that is a directory
Descend ==
    /\ AtEntry
    /\ LET e == Top.entries[Top.i]
           child == Append(Top.path, e.name) IN
       /\ ~SkipsGit(e.name) /\ e.type = "dir"
       /\ \E s \in SortedOrders(DirEntries(child)) :
             stack' = Append(stack, Frame(child, s))
    /\ UNCHANGED <<objects, fanout, tmp, wt, oracle, w, r, cmd, hist>>

\* Object::blob_from_file(&path) for an entry that is no directory
BlobEntry ==
    /\ AtEntry
    /\ LET e == Top.entries[Top.i]
           path == Append(Top.path, e.name) IN
       /\ ~SkipsGit(e.name) /\ e.type # "dir"
       /\ wt[path].type # "gone"
       /\ w' = NewWrite("blob_from_file", "Blob", Len(wt[path].data),
                        FileHandle(path), TRUE, "create")
    /\ stack' = SetTop([Top EXCEPT !.pc = "blob"])
    /\ UNCHANGED <<objects, fanout, tmp, wt, oracle, r, cmd, hist>>

\* Object::blob_from_file(&path)? for an entry whose file is no longer
\* there: std::fs::metadata fails and the walk ends
BlobFromFileFails ==
    /\ AtEntry
    /\ LET e == Top.entries[Top.i] IN
       /\ ~SkipsGit(e.name) /\ e.type # "dir"
       /\ wt[Append(Top.path, e.name)].type = "gone"
    /\ stack' = <<>>
    /\ cmd' = [cmd EXCEPT !.res = "Err", !.err = "io"]
    /\ UNCHANGED <<objects, fanout, tmp, wt, oracle, w, r, hist>>

\* tree_object.extend(mode, ' ', file_name, 0, hash) after the blob's rename
EntryDone ==
    /\ stack # <<>> /\ Top.pc = "blob" /\ w.pc = "done"
    /\ LET e == Top.entries[Top.i] IN
       stack' = SetTop(Advance(Top, w.hash, TreeEntry(ModeOf(e), e.name, w.hash)))
    /\ w' = IdleWriter
    /\ UNCHANGED <<objects, fanout, tmp, wt, oracle, r, cmd, hist>>

\* tree_object.is_empty()
TreeIsEmpty(tree) == tree = <<>>

\* Object { Tree, tree_object.len(), Cursor::new(tree_object) }.write_to_objects()
WriteTreeObject ==
    /\ stack # <<>> /\ Top.pc = "loop" /\ Top.i > Len(Top.entries)
    /\ ~TreeIsEmpty(Top.tree)
    /\ w' = NewWrite("write_to_objects", "Tree", Len(Top.tree), Cursor(Top.tree),
                     TRUE, "create")
    /\ stack' = SetTop([Top EXCEPT !.pc = "tree"])
    /\ UNCHANGED <<objects, fanout, tmp, wt, oracle, r, cmd, hist>>

\* the frames left when the top one returns `result`: the caller's loop goes
\* on, with an entry for the directory when it returned a digest
Popped(result) ==
    LET n == Len(stack) - 1
        parent == stack[n]
        e == parent.entries[parent.i]
        bytes == IF result = NoHash THEN <<>> ELSE TreeEntry(ModeOf(e), e.name, result)
    IN  [SubSeq(stack, 1, n) EXCEPT ![n] = Advance(parent, result, bytes)]

\* Ok(Some(hash)): to the loop of the caller, or to invoke, which prints it
ReturnSome ==
    /\ stack # <<>> /\ Top.pc = "tree" /\ w.pc = "done"
    /\ IF Len(stack) = 1
       THEN /\ stack' = <<>>
            /\ cmd' = [cmd EXCEPT !.res = "Ok", !.id = w.hash]
       ELSE /\ stack' = Popped(w.hash)
            /\ cmd' = cmd
    /\ w' = IdleWriter
    /\ UNCHANGED <<objects, fanout, tmp, wt, oracle, r, hist>>

\* Ok(None): the caller's loop continues, or invoke bails with "empty tree"
ReturnNone ==
    /\ stack # <<>> /\ Top.pc = "loop" /\ Top.i > Len(Top.entries)
    /\ TreeIsEmpty(Top.tree)
    /\ IF Len(stack) = 1
       THEN /\ stack' = <<>>
            /\ cmd' = [cmd EXCEPT !.res = "Err", !.err = "empty tree"]
       ELSE /\ stack' = Popped(NoHash)
            /\ cmd' = cmd
    /\ UNCHANGED <<objects, fanout, tmp, wt, oracle, w, r, hist>>

\* the directories of a working directory t that are not inside a .git
WorkDirs(t) ==
    {<<>>} \cup {q \in DOMAIN t : t[q].type = "dir" /\ \A k \in 1..Len(q) : q[k] # DotGit}

\* t with one more file (holding its own name), executable file, directory
\* or repository directory (a .git holding its HEAD)
Grown(t) ==
    {t @@ (Append(p, n) :> IF k = "dir" THEN Dir
                           ELSE [File(n) EXCEPT !.exec = (k = "exec")]) :
        p \in {q \in WorkDirs(t) : Len(q) < MaxDepth}, n \in WorkNames,
        k \in {"file", "exec", "dir"}}
    \cup {t @@ (Append(p, DotGit) :> Dir)
            @@ (Append(p, DotGit) \o <<NameHead>> :> File(HeadText)) :
        p \in {q \in WorkDirs(t) : Len(q) < MaxDepth}}

\* the working directories of up to n nodes
RECURSIVE TreesUpTo(_)
TreesUpTo(n) ==
    IF n = 0 THEN {EmptyTree}
    ELSE LET s == TreesUpTo(n - 1) IN s \cup UNION {Grown(t) : t \in s}

InitTree ==
    /\ objects = EmptyStore /\ fanout = {} /\ tmp = NoFile
    /\ wt \in TreesUpTo(MaxNodes)
    /\ oracle = <<>> /\ w = IdleWriter /\ r = IdleReader /\ stack = <<>>
    /\ cmd = [NoCmd EXCEPT !.left = 1] /\ hist = {}

NextTree ==
    \/ StartWriteTree \/ SkipGit \/ Descend \/ BlobEntry \/ BlobFromFileFails
    \/ EntryDone
    \/ WriteTreeObject \/ ReturnSome \/ ReturnNone
    \/ CreateTmp \/ WriteHeader \/ CopyPayload \/ Finish \/ MkDir \/ Rename
    \/ WriteFails

SpecTree == InitTree /\ [][NextTree]_vars

(***************************************************************************)
(* HashWriter over a sink that takes all of a buffer, part of it, or fails *)
(* (SpecHash).  tmp.data is what the sink reported as accepted, w.hasher   *)
(* what the digest was fed.                                                *)
(***************************************************************************)
MaxCalls == 3       \* calls of write and flush on one HashWriter

\* the buffers handed to write
Bufs == UNION {[1..n -> {97, 98}] : n \in 0..MaxBuf}

InitHash ==
    /\ objects = EmptyStore /\ fanout = {} /\ tmp = ZFile(<<>>, FALSE)
    /\ wt = EmptyTree /\ oracle = <<>> /\ r = IdleReader /\ stack = <<>>
    /\ w = IdleWriter
    /\ cmd = [NoCmd EXCEPT !.left = MaxCalls] /\ hist = {}

\* HashWriter::write(buf): self.writer.write(buf)? gave Ok(n), n <= buf.len()
HashWriteOk ==
    /\ CanStart
    /\ \E buf \in Bufs : \E n \in 0..Len(buf) :
          /\ tmp' = Fed(tmp, Take(buf, n))
          /\ w' = [w EXCEPT !.hasher = HashUpdate(@, buf, n)]
          /\ cmd' = Cmd("write", "Ok", "", buf, n)
    /\ UNCHANGED <<objects, fanout, wt, oracle, r, stack, hist>>

\* HashWriter::write(buf): self.writer.write(buf)? gave Err, handed up by `?`
HashWriteErr ==
    /\ CanStart
    /\ \E buf \in Bufs : cmd' = Cmd("write", "Err", "io", buf, 0)
    /\ UNCHANGED <<objects, fanout, tmp, wt, oracle, w, r, stack, hist>>

\* HashWriter::flush: self.writer.flush(), whatever it returns
HashFlush ==
    /\ CanStart
    /\ \E ok \in BOOLEAN :
          cmd' = Cmd("flush", IF ok THEN "Ok" ELSE "Err", IF ok THEN "" ELSE "io",
                     <<>>, 0)
    /\ UNCHANGED <<objects, fanout, tmp, wt, oracle, w, r, stack, hist>>

NextHash == HashWriteOk \/ HashWriteErr \/ HashFlush

SpecHash == InitHash /\ [][NextHash]_vars

(***************************************************************************)
(* The comparator of write_tree_for on two entries of one directory        *)
(* (SpecCmp).                                                              *)
(***************************************************************************)
MaxName == 2        \* longest name compared

\* the bytes of the names compared: '.', '0' and 'a', on both sides of '/'
NameBytes == {46, 48, 97}
CmpNames == UNION {[1..n -> NameBytes] : n \in 1..MaxName}
CmpEntries ==
    {[name |-> n, type |-> t, exec |-> FALSE] : n \in CmpNames, t \in {"file", "dir"}}

InitCmp ==
    /\ objects = EmptyStore /\ fanout = {} /\ tmp = NoFile
    /\ wt = EmptyTree /\ oracle = <<>> /\ r = IdleReader /\ stack = <<>>
    /\ w = IdleWriter
    /\ cmd = [NoCmd EXCEPT !.left = 1] /\ hist = {}

\* the sort calls its closure on two entries, whose names differ
CallCompare ==
    /\ CanStart
    /\ \E a, b \in CmpEntries :
          /\ a.name # b.name
          /\ cmd' = Cmd("compare", "Ok", "", <<a, b>>, Compare(a, b))
    /\ UNCHANGED <<objects, fanout, tmp, wt, oracle, w, r, stack, hist>>

NextCmp == CallCompare

SpecCmp == InitCmp /\ [][NextCmp]_vars

(***************************************************************************)
(* Claims about the LimitReader (SpecLimit).                               *)
(***************************************************************************)
\* C5 (as claimed): when the source offers more than the limit L, the caller
\* is never shown byte L+1 and never observes end of data: whatever calls it
\* makes, the reader fails with "too many bytes" first.
C5_OverrunAlwaysFails ==
    (r.who = "any" /\ r.offer > r.size) =>
        /\ r.shown <= r.size
        /\ ~r.ended

\* C9 (as claimed): a call of read or fill_buf made when the remaining limit
\* is 0 returns zero bytes and no error (failures of the underlying reader
\* itself set aside), whatever the source still holds.
C9_ZeroAtLimitNoError ==
    (r.who = "any" /\ r.last.at0 /\ r.last.op \in {"read", "fill_buf"}
        /\ r.last.err # "io") =>
        (r.last.ok /\ r.last.n = 0)

\* C9 (amended): at remaining limit 0, fill_buf returns zero bytes and no
\* error whatever the source still holds; read into a non-empty buffer
\* returns zero bytes and no error when the source is at its end, and fails
\* with "too many bytes" when the source still holds a byte.
C9_ZeroAtLimit ==
    (r.who = "any" /\ r.last.at0 /\ r.last.err # "io") =>
        /\ r.last.op = "fill_buf" => (r.last.ok /\ r.last.n = 0)
        /\ (r.last.op = "read" /\ ~r.last.more) => (r.last.ok /\ r.last.n = 0)
        /\ (r.last.op = "read" /\ r.last.more) =>
              (~r.last.ok /\ r.last.err = "too many bytes")

\* a positive limit has run down to 0 and fill_buf is called again while the
\* source still holds bytes
C9_Witness ==
    /\ r.who = "any" /\ r.size > 0 /\ r.limit = 0
    /\ r.last.at0 /\ r.last.op = "fill_buf" /\ r.last.more
    /\ r.last.ok /\ r.last.n = 0

(***************************************************************************)
(* Claims about the readers of the store (SpecDecode).                     *)
(***************************************************************************)
\* the file's header declares more payload bytes than its stream holds
Truncated(f) ==
    LET d == DecodeHeader(f.data, FALSE) IN d.tag = "Ok" /\ Len(d.rest) < d.size

\* C6 (as claimed): cat-file -p and ls-tree never end in success on an object
\* whose decompressed stream ends before the declared number of payload bytes.
C6_TruncationIsAnError ==
    (cmd.name \in {"cat-file", "ls-tree"} /\ cmd.res = "Ok") =>
        ~Truncated(objects[cmd.id])

\* the cat-file half of C6, which the code does satisfy
CatFileDetectsTruncation ==
    (cmd.name = "cat-file" /\ cmd.res = "Ok") =>
        /\ ~Truncated(objects[cmd.id])
        /\ Len(cmd.out) = r.size

\* the stream starts with `<kind> <size>` and a NUL, for this kind and size
WellFormed(data, kind, size) ==
    LET i == IndexOf(data, NUL)
        text == SubSeq(data, 1, i - 1)
        n == Len(KindName(kind))
        tok == SubSeq(text, n + 2, Len(text))
        digits == IF Len(tok) > 0 /\ tok[1] = 43 THEN Drop(tok, 1) ELSE tok
    IN  /\ i > 0
        /\ Len(text) >= n + 2
        /\ SubSeq(text, 1, n + 1) = KindName(kind) \o <<SP>>
        /\ Len(digits) > 0
        /\ \A j \in 1..Len(digits) : IsDigit(digits[j])
        /\ DigitsValue(digits) = size

\* C8 (as claimed): Object::read returns an Object for a well-formed header or
\* an error value; it never aborts the process.
C8_HeaderErrorsAreValues ==
    cmd.name = "read" =>
        /\ cmd.res \in {"Ok", "Err"}
        /\ cmd.res = "Ok" => WellFormed(objects[cmd.id].data, r.kind, r.size)

\* what does hold of Object::read: an Object only for a well-formed header
ReadOkIsWellFormed ==
    (cmd.name = "read" /\ cmd.res = "Ok") =>
        WellFormed(objects[cmd.id].data, r.kind, r.size)

(***************************************************************************)
(* Claims about the store (Spec).                                          *)
(***************************************************************************)
IsPrefix(a, b) == Len(a) <= Len(b) /\ a = Take(b, Len(a))

\* the writes that returned digest h for an object whose declared size is
\* the length of its payload
ExactWrites(h) == {e \in hist : e.hash = h /\ e.size = Len(e.payload)}

\* C1: once write_to_objects has returned digest h for (K, len(P), P),
\* Object::read(h) returns kind K and expected_size len(P), its reader never
\* fails and hands out a prefix of P, and, read to its end, exactly P.
C1_RoundTrip ==
    (cmd.name = "read" /\ cmd.id \in DOMAIN objects) =>
        \A e \in ExactWrites(cmd.id) :
            /\ cmd.res = "Ok"
            /\ r.kind = e.kind
            /\ r.size = Len(e.payload)
            /\ r.pc = "open"
            /\ IsPrefix(r.out, e.payload)
            /\ r.ended => r.out = e.payload

\* a payload of full length that holds a NUL was written and read to its end
C1_Witness ==
    /\ cmd.name = "read" /\ r.ended
    /\ \E e \in ExactWrites(cmd.id) :
          /\ Len(e.payload) = MaxLen /\ NUL \in Range(e.payload)
          /\ r.out = e.payload

\* C2: every file at a final path of .git/objects is a finished zlib stream
\* of the whole canonical stream its name is the digest of, whatever writes
\* were made and wherever they failed.
C2_AtomicPublication ==
    \A h \in DOMAIN objects :
        /\ objects[h].there /\ objects[h].fin
        /\ h - DigestBase \in 1..Len(oracle)
        /\ objects[h].data = oracle[h - DigestBase]
        /\ Fan(h) \in fanout

\* a write failed and left a partly written tmp behind, beside stored objects
C2_Witness ==
    /\ DOMAIN objects # {}
    /\ w.pc = "failed" /\ tmp.there /\ ~tmp.fin /\ Len(tmp.data) > 0

\* C3: writes of the same (kind, payload) return the same digest, and the
\* store holds for it one file, at the path of that digest, with the content
\* the first write gave it.
C3_IdempotentWrite ==
    \A e \in hist :
        /\ e.hash \in DOMAIN objects
        /\ objects[e.hash] = e.stored
        /\ \A f \in hist :
              (f.kind = e.kind /\ f.size = e.size /\ f.payload = e.payload) => f = e
        /\ \A h \in DOMAIN objects : objects[h].data = e.stored.data => h = e.hash

\* a second write of the same object has returned
C3_Witness ==
    /\ w.pc = "done" /\ w.again
    /\ \E e \in hist : e.hash = w.hash /\ Len(e.payload) > 0

\* C7 (as claimed): an Object::write that streamed a byte count other than
\* expected_size fails, so the object a returned write published has a
\* header size that is the length of its payload.
C7_SizeVerifiedOnWrite ==
    (cmd.name = "write" /\ w.pc = "done") =>
        /\ w.copied = w.size
        /\ LET d == DecodeHeader(objects[w.hash].data, FALSE) IN
           d.tag = "Ok" /\ d.size = Len(d.rest)

(***************************************************************************)
(* Claims about write-tree (SpecTree).                                     *)
(***************************************************************************)
\* entry e stands before entry f in the sorted entries of some frame
Before(e, f) ==
    \A k \in 1..Len(stack) : \A i, j \in 1..Len(stack[k].entries) :
        LET x == stack[k].entries[i]
            y == stack[k].entries[j]
        IN  (x.name = e.name /\ (x.type = "dir") = e.dir
             /\ y.name = f.name /\ (y.type = "dir") = f.dir) => i < j

FileNamed(n) == [name |-> n, dir |-> FALSE]
DirNamed(n) == [name |-> n, dir |-> TRUE]

\* C4 (as claimed): the sort puts a directory named "a" before a file named
\* "a.c" and after a file named "a", and a file named "a" before a file
\* named "a.c".
C4_DirBeforeDotted ==
    /\ Before(FileNamed(NameA), FileNamed(NameAC))
    /\ Before(FileNamed(NameA), DirNamed(NameA))
    /\ Before(DirNamed(NameA), FileNamed(NameAC))

\* C4: the sort puts a file named "a" before a file named "a.c", and a
\* directory named "a" after a file named "a.c": the directory compares as
\* "a/", and '/' is greater than '.'.
C4_TreeOrdering ==
    /\ Before(FileNamed(NameA), FileNamed(NameAC))
    /\ Before(FileNamed(NameAC), DirNamed(NameA))

\* a directory holding the file a.c and the directory a has been sorted, and
\* the entry of a.c is in its tree
C4_Witness ==
    \E k \in 1..Len(stack) :
        /\ Len(stack[k].entries) = 2
        /\ stack[k].entries[1].name = NameAC /\ stack[k].entries[1].type = "file"
        /\ stack[k].entries[2].name = NameA /\ stack[k].entries[2].type = "dir"
        /\ stack[k].i = 2 /\ stack[k].tree # <<>>

\* a file lay under directory p, outside every .git, when the walk began
HasFile(p) ==
    \E q \in DOMAIN wt :
        /\ Len(q) > Len(p) /\ Take(q, Len(p)) = p
        /\ wt[q].type # "dir"
        /\ \A k \in (Len(p) + 1)..Len(q) : q[k] # DotGit

\* the names of the entries of a tree payload, as ls-tree reads them
RECURSIVE TreeNames(_)
TreeNames(payload) ==
    LET z == IndexOf(payload, NUL)
        head == SubSeq(payload, 1, z - 1)
        sp == IndexOf(head, SP)
    IN  IF z = 0 THEN {}
        ELSE {SubSeq(head, sp + 1, Len(head))} \cup TreeNames(Drop(payload, z + HashLen))

\* the claim of C10 for one frame of the walk
FrameSkipsEmpty(f) ==
    /\ ~HasFile(f.path) => (f.tree = <<>> /\ f.pc = "loop")
    /\ \A k \in 1..Len(f.got) :
          LET e == f.entries[k] IN
          /\ e.name = DotGit => f.got[k] = Skipped
          /\ (e.name # DotGit /\ e.type = "dir" /\ ~HasFile(Append(f.path, e.name)))
                => f.got[k] = NoHash
    /\ \A n \in TreeNames(f.tree) :
          /\ n # DotGit
          /\ Append(f.path, n) \in DOMAIN wt
          /\ wt[Append(f.path, n)].type = "dir" => HasFile(Append(f.path, n))

\* C10: write_tree_for on a directory with no file under it outside .git
\* returns None and starts no write, at the root (where write-tree then
\* fails with "empty tree") and below it; a tree it builds or stores has no
\* entry named .git and none for a directory that returned None.
C10_EmptyDirectories ==
    /\ \A k \in 1..Len(stack) : FrameSkipsEmpty(stack[k])
    /\ (stack # <<>> /\ ~HasFile(Top.path)) => w = IdleWriter
    /\ (cmd.name = "write-tree" /\ ~HasFile(<<>>)) =>
          /\ objects = EmptyStore /\ ~tmp.there
          /\ cmd.res = "running" \/ (cmd.res = "Err" /\ cmd.err = "empty tree")
    /\ \A e \in hist : e.kind = "Tree" =>
          (e.payload # <<>> /\ DotGit \notin TreeNames(e.payload))

\* write-tree has returned a digest for a directory that holds a .git, a file
\* and a directory without files, having taken None from that directory
C10_Witness ==
    /\ cmd.name = "write-tree" /\ cmd.res = "Ok"
    /\ <<DotGit>> \in DOMAIN wt
    /\ \E q \in DOMAIN wt :
          Len(q) = 1 /\ wt[q].type = "dir" /\ q[1] # DotGit /\ ~HasFile(q)
    /\ \E e \in hist : e.hash = cmd.id /\ e.kind = "Tree" /\ TreeNames(e.payload) # {}

(***************************************************************************)
(* Claims about the HashWriter (SpecHash).                                 *)
(***************************************************************************)
\* C11: after every sequence of writes (whole, short, failing) and flushes,
\* the digest has been fed the bytes the sink reported as accepted, in
\* order, and nothing else; a failing write and a flush leave it as it was.
C11_DigestIsAccepted ==
    /\ [](w.hasher = tmp.data)
    /\ [][(cmd'.name = "flush" \/ cmd'.res = "Err") => w'.hasher = w.hasher]_vars

\* a short write of a buffer, after bytes were already fed
C11_Witness ==
    /\ cmd.name = "write" /\ cmd.res = "Ok"
    /\ cmd.id > 0 /\ cmd.id < Len(cmd.out)
    /\ Len(w.hasher) > cmd.id

(***************************************************************************)
(* Further claims about the store (Spec).                                  *)
(***************************************************************************)
\* the canonical stream of a written object, finished
Canonical(e) == ZFile(Header(e.kind, e.size) \o e.payload, TRUE)

\* C12: a write that fails while it creates or streams into the temporary
\* file leaves every file under .git/objects as it was; the write after it
\* starts from an empty temporary file, and when it returns it has stored
\* the canonical stream of its object under the digest of that stream, as a
\* write with no failure before it does.
C12_FailedWritesAbandoned ==
    /\ [][(w'.pc = "failed" /\ w'.retry) =>
            (objects' = objects /\ fanout' = fanout /\ oracle' = oracle)]_vars
    /\ []((w.retry /\ w.toTmp /\ w.pc = "header") => tmp = ZFile(<<>>, FALSE))
    /\ []((w.retry /\ w.pc = "done") =>
            \E e \in hist :
                /\ e.hash = w.hash /\ e.kind = w.kind /\ e.size = w.size
                /\ e.stored = Canonical(e)
                /\ objects[w.hash] = e.stored
                /\ oracle[w.hash - DigestBase] = e.stored.data)

\* a write of a payload has returned after the write before it was abandoned
C12_Witness ==
    /\ w.retry /\ w.pc = "done" /\ w.size > 0
    /\ w.hash \in DOMAIN objects

(***************************************************************************)
(* Claims about the comparator (SpecCmp).                                  *)
(***************************************************************************)
\* the name of an entry with '/' after it when the entry is a directory
Key(e) == e.name \o (IF e.type = "dir" THEN <<SLASH>> ELSE <<>>)

\* x is before y bytewise: at the first place they differ x has the lesser
\* byte, or x ends there
LexLess(x, y) ==
    \E i \in 1..Len(y) :
        /\ i <= Len(x) + 1
        /\ SubSeq(x, 1, i - 1) = SubSeq(y, 1, i - 1)
        /\ i > Len(x) \/ x[i] < y[i]
LexCmp(x, y) == IF x = y THEN 0 ELSE IF LexLess(x, y) THEN 0 - 1 ELSE 1

\* C13: on two entries of one directory (names that differ and hold no '/')
\* the comparator returns what the bytewise comparison of the names returns
\* once '/' is appended to the name of each directory; it never returns
\* Equal, it is antisymmetric and it is transitive.
C13_TrailingSlashOrder ==
    cmd.name = "compare" =>
        LET a == cmd.out[1]
            b == cmd.out[2]
        IN  /\ cmd.id = LexCmp(Key(a), Key(b))
            /\ cmd.id # 0
            /\ Compare(b, a) = 0 - cmd.id
            /\ \A c \in CmpEntries :
                  (c.name # a.name /\ c.name # b.name
                   /\ cmd.id < 0 /\ Compare(b, c) < 0) => Compare(a, c) < 0

\* a directory was compared with a file whose name goes on with '.', a byte
\* below '/', and came out Greater
C13_Witness ==
    /\ cmd.name = "compare" /\ cmd.id = 1
    /\ cmd.out[1].type = "dir" /\ cmd.out[2].type = "file"
    /\ Len(cmd.out[2].name) = Len(cmd.out[1].name) + 1
    /\ cmd.out[2].name = cmd.out[1].name \o <<46>>

(***************************************************************************)
(* Further claims about write-tree (SpecTree).                             *)
(***************************************************************************)
\* the digests of the entries of a tree payload, as ls-tree reads them
RECURSIVE TreeHashes(_)
TreeHashes(payload) ==
    LET z == IndexOf(payload, NUL) IN
    IF z = 0 \/ Len(payload) < z + HashLen THEN {}
    ELSE {HashOfBytes(SubSeq(payload, z + 1, z + HashLen))}
         \cup TreeHashes(Drop(payload, z + HashLen))

\* the digests named by the stored object h when it is a tree
StoredTreeHashes(h) ==
    LET d == DecodeHeader(objects[h].data, FALSE) IN
    IF d.tag = "Ok" /\ d.kind = "Tree" THEN TreeHashes(d.rest) ELSE {}

\* C14: every digest in a tree object of the store, in a tree being written
\* and in a tree_object being built names an object already in the store,
\* in every state of the walk and after a failure partway through it.
C14_ChildrenBeforeParents ==
    /\ \A h \in DOMAIN objects : StoredTreeHashes(h) \subseteq DOMAIN objects
    /\ \A k \in 1..Len(stack) : TreeHashes(stack[k].tree) \subseteq DOMAIN objects
    /\ (w.kind = "Tree" /\ w.src.type = "cursor") =>
          TreeHashes(w.src.bytes) \subseteq DOMAIN objects

\* the walk failed after it had stored the tree of a directory
C14_Witness ==
    /\ cmd.name = "write-tree" /\ cmd.res = "Err" /\ cmd.err = "io"
    /\ \E h \in DOMAIN objects : StoredTreeHashes(h) # {}

\* the files of working directory t outside every .git
WorkFiles(t) ==
    {p \in DOMAIN t : t[p].type = "file" /\ \A k \in 1..Len(p) : p[k] # DotGit}

\* what the file at p held when the command started: its own name
StartedWith(p) == p[Len(p)]

\* C15 (as claimed): no step of write-tree changes or removes a file of the
\* working directory, one named tmp included, and the blob stored for a
\* file holds what the file held when the command started.
C15_WorkingTreeUndisturbed ==
    /\ [][cmd'.name = "write-tree" => \A p \in WorkFiles(wt) : wt'[p] = wt[p]]_vars
    /\ [](\A k \in 1..Len(stack) : \A j \in 1..Len(stack[k].got) :
            LET e == stack[k].entries[j] IN
            (e.type = "file" /\ e.name # DotGit) =>
                \E b \in hist :
                    /\ b.hash = stack[k].got[j] /\ b.kind = "Blob"
                    /\ b.payload = StartedWith(Append(stack[k].path, e.name)))

\* what does hold: files that are not the tmp of the current directory are
\* left alone and stored as they were
OnlyTmpDisturbed ==
    /\ [][cmd'.name = "write-tree" =>
            \A p \in WorkFiles(wt) \ {TmpPath} : wt'[p] = wt[p]]_vars
    /\ [](\A k \in 1..Len(stack) : \A j \in 1..Len(stack[k].got) :
            LET e == stack[k].entries[j] IN
            (e.type = "file" /\ e.name # DotGit
             /\ Append(stack[k].path, e.name) # TmpPath) =>
                \E b \in hist :
                    /\ b.hash = stack[k].got[j] /\ b.kind = "Blob"
                    /\ b.payload = StartedWith(Append(stack[k].path, e.name)))

====
